---- MODULE Spec2Model ----
(***************************************************************************)
(* Deferred-shading pipeline with GPU ray seeding (geometry pass), GPU ray *)
(* chains (compute pass) and the lighting resolve, as driven by the frame  *)
(* loop of the demo.  The host thread issues the pass calls in sequence;   *)
(* fragment-shader and compute-shader invocations of one pass interleave.  *)
(*                                                                         *)
(* Roughness values and the roughness threshold are floats in the source;  *)
(* the shaders only compare them, so they are modelled by an ordered       *)
(* integer scale 0..MaxRoughness (0 is the float 0.0).  Depths likewise.   *)
(* Of a ray record only the chain link `next` is kept: the payload         *)
(* (position, normal, albedo, metalness, roughness, rayDir) is written in  *)
(* the same block of stores and is read only to build the next ray, whose  *)
(* intersection result is an input of the model.                           *)
(***************************************************************************)
EXTENDS Integers, FiniteSets, Sequences, TLC

\* ------------------------------------------------------------------ bounds
\* Window size in pixels (eng.getWindowSize().x * eng.getWindowSize().y).
NumPixels == 1
\* Fragments rasterized by one geometry render (scene dependent).
MaxFragments == 2
\* Largest roughness level a texel takes (level 0 is roughness 0.0).
MaxRoughness == 1
\* Depth levels a fragment takes; the cleared depth is one past the last.
MaxDepth == 2
\* Largest bounce count the host passes to the ray-tracing render.
MaxBounceArg == 1
\* Records the shared counter hands out in one frame (guard on allocation).
MaxRecords == 3
\* Most lights the renderable list holds (list.getNrOfLights()).
MaxSceneLights == 5
\* Largest value followed for shadowMapCount (guard on the depth-map loop).
MaxShadowMapCount == 6
\* Most meshes the renderable list holds, and most faces of a mesh.
MaxMeshes == 2
MaxFaces == 2
\* Triangles of the part of the scene a ray is tested against, and the
\* largest collision distance t of a triangle.
MaxTested == 3
MaxHitT == 2
\* Most lights of the lighting shader's loop and most bounce records of a
\* chain before its terminal record.
MaxShaderLights == 2
MaxChain == 2
\* Most children of a mesh read from a file.
MaxChildren == 2
\* Most indices handed out past the end of the ray buffer.
MaxOverflow == 1

\* ------------------------------------------------------- program constants
\* layout (local_size_x = 64, ...) of the compute shader.
LocalSizeX == 64
\* Ray buffer capacity factor: sizeof(RayStruct) * width * height * 3.
RayBufferFactor == 3
\* Value the ray-index image is cleared to, and the end-of-chain mark.
NoRay == -1
\* #define MAX_LIGHTS 4: length of Reserved::depthMaps.
MAX_LIGHTS == 4
\* static const int MAX_BOUNCES = 4.
MAX_BOUNCES == 4

Pixels == 0 .. (NumPixels - 1)
RoughnessLevels == 0 .. MaxRoughness
DepthLevels == 0 .. (MaxDepth - 1)
DepthFar == MaxDepth
RayBufferCapacity == RayBufferFactor * NumPixels
RecordCap == IF MaxRecords < RayBufferCapacity THEN MaxRecords ELSE RayBufferCapacity
Records == 0 .. (RecordCap - 1)

VARIABLES
    hostPc,             \* where the host thread is in the frame loop
    geomDirty,          \* PipelineGeometry: isDirty()
    rtDirty,            \* PipelineRayTracing: isDirty()
    geomResult,         \* value returned by the last geometryPipe.render
    rtResult,           \* value returned by the last raytracingPipe.render
    rtCall,             \* arguments of the last raytracingPipe.render
    roughnessThreshold, \* uniform roughnessThreshold of the geometry program
    nrOfBounces,        \* uniform nrOfBounces of the compute program
    counter,            \* reserved->rayBufferCounter (atomic counter value)
    rayData,            \* reserved->rayBuffer: RayStruct rayData[]
    rayIndexTex,        \* reserved->rayBufferIndexTex (r32i)
    depthTex,           \* reserved->depthTex
    matTex,             \* reserved->matTex, alpha channel (roughness)
    cmd,                \* DispatchIndirectCommand.num_groups_x
    fragsDone,          \* fragments rasterized so far by the running draw (0: none runs)
    inv,                \* compute invocations of the running dispatch
    pending,            \* shader writes not yet covered by a memory barrier
    loopBody,           \* the pass calls of one frame, in the order main() makes them
    sceneLights,        \* list.getNrOfLights()
    sceneFaces,         \* ebo.getNrOfFaces() of each mesh of the list, in list order
    shadowDirty,        \* PipelineShadowMapping: isDirty()
    shadowMapCount,     \* PipelineShadowMapping: reserved->shadowMapCount
    shadowDrawn,        \* depth maps the last shadow render drew into
    lightDirty,         \* PipelineFullscreenLighting: isDirty()
    triangles,          \* reserved->triangles: TriangleStruct per face
    bspheres,           \* reserved->bspheres: BSphereStruct per mesh
    nrOfTriangles,      \* reserved->nrOfTriangles
    nrOfMeshes,         \* reserved->nrOfMeshes
    nrOfMaterials,      \* reserved->nrOfMaterials
    materials,          \* reserved->materials: MaterialStruct per renderable
    bound,              \* binding points each pass's render bound its resources to
    glState,            \* colour mask, face culling and framebuffer binding
    nrOfLights,         \* uniform nrOfLights of the lighting program
    call,               \* the function call followed on its own, if any
    lastResult,         \* value returned by the last pass call
    \* history, written by the model only:
    handedOut,          \* how often each index was handed out this frame
    seedCount,          \* counter value when the geometry render returned
    nrZeroRough,        \* fragments of roughness 0.0 rasterized this frame
    nextWriters,        \* invocations that wrote rayData[r].next this dispatch
    staleAtReset,       \* the geometry render about to draw found seeds of an earlier frame
    argsValid,          \* the last pass call got a non-empty list (and camera)
    failed,             \* a pass call of this frame has returned false
    builds,             \* successful init() runs of each pass
    initFailed          \* passes whose init() has returned false at least once

\* The scene and the loop body, read by the passes: the loop body is set
\* before the loop, the list is built again at the start of each frame.
sceneVars == <<loopBody, sceneLights, sceneFaces>>

\* State of the shadow pass.
shadowVars == <<shadowDirty, shadowMapCount, shadowDrawn>>

\* Buffers and counts migrate() fills.
migrateVars == <<triangles, bspheres, materials, nrOfTriangles, nrOfMeshes,
                 nrOfMaterials>>

\* GL state the passes set: bindings, fixed-function state, lighting uniform.
glVars == <<bound, glState, nrOfLights>>

\* State of the geometry and ray-tracing passes and the frame's history of
\* them.
rayVars == <<geomDirty, rtDirty, geomResult, rtResult, rtCall,
             roughnessThreshold, nrOfBounces, counter, rayData, rayIndexTex,
             depthTex, matTex, cmd, fragsDone, inv, pending, handedOut,
             seedCount, nrZeroRough, nextWriters, staleAtReset>>

vars == <<hostPc, geomDirty, rtDirty, geomResult, rtResult, rtCall,
          roughnessThreshold, nrOfBounces, counter, rayData, rayIndexTex,
          depthTex, matTex, cmd, fragsDone, inv, pending, handedOut,
          seedCount, nrZeroRough, nextWriters, staleAtReset, sceneVars,
          shadowVars, lightDirty, migrateVars, lastResult, argsValid, failed,
          builds, initFailed, glVars, call>>

\* ------------------------------------------------------------------ helpers
Min(a, b) == IF a < b THEN a ELSE b

CeilDiv(a, b) == (a + b - 1) \div b

\* The five passes, and the call that follows a pass in the loop body (the
\* first one again after the last).
Passes == {"shadow", "geometry", "migrate", "raytracing", "lighting"}

NextCall(pass) ==
    LET k == CHOOSE j \in 1 .. Len(loopBody) : loopBody[j] = pass
    IN  loopBody[(k % Len(loopBody)) + 1]

\* Managed::init(), the first statement of every init(): it lets the build go
\* ahead (returns true) also on a pass whose earlier init() returned false.
ManagedInit(failedBefore) == TRUE

\* Bytes the code never assigns (the _pad member of a struct local to
\* migrate()): any value; two stand for all.
Indeterminate == {0, 1}

\* init() that skips its final setDirty(false).
InitLeavesDirty(dirty) == dirty

\* Lazy loading, "if (this->isDirty()) if (!this->init()) ...", with init()
\* succeeding: init() ends with setDirty(false); a clean pass stays clean.
LazyInit(dirty) == FALSE

\* init() runs to its end only when the pass was dirty.
Built(b, pass, dirty) == IF dirty THEN [b EXCEPT ![pass] = @ + 1] ELSE b

\* No function is followed on its own.
NoFunction == [fn |-> "none"]

\* A ray record (RayStruct), reduced to its chain link.
EmptyRecord == [next |-> NoRay]

\* No raytracingPipe.render call made yet in this frame.
NoCall == [valid |-> FALSE, nrOfBounces |-> 0]

\* A compute invocation: where it is in main() and rayCasting, its locals
\* index, c and newIndex, and whether intersect() found nothing for the ray it
\* holds.  Not launched; launched; in the bounce loop; returned (of the
\* locals, a returned invocation keeps the record its chain ended at by a
\* miss).
InvOff == [pc |-> "off", index |-> 0, c |-> 0, newIndex |-> 0, missed |-> FALSE]
InvStart == [pc |-> "start", index |-> 0, c |-> 0, newIndex |-> 0, missed |-> FALSE]
InvLoop(index, c, missed) ==
    [pc |-> "loop", index |-> index, c |-> c, newIndex |-> 0, missed |-> missed]
InvDone(index, missed) ==
    [pc |-> "done", index |-> index, c |-> 0, newIndex |-> 0, missed |-> missed]

\* intersect(ray, hit) reads the ray and the migrated scene only, so it
\* returns the same for the same ray: anything for a new ray, false again for
\* a ray it found nothing for.
Intersect(missed) == IF missed THEN {FALSE} ELSE {TRUE, FALSE}

\* Invocations whose gl_GlobalInvocationID.x can ever pass the range test of
\* main() with an index inside the ray buffer; the others are not followed.
Launched(groups) == 0 .. (Min(LocalSizeX * groups, RecordCap) - 1)

\* Workgroup counts the indirect dispatch command may hold.  One workgroup is
\* local_size_x = 64 invocations, more than there are records, so every count
\* above 0 launches the same invocations that can act: 0 and 1 stand for all.
GroupCounts == {0, 1}

\* atomicCounterIncrement(counter): one indivisible step that returns the old
\* value and stores old + 1.
AtomicCounterIncrementValue(c) == c

\* An increment whose store is lost: the counter keeps its old value.
AtomicCounterIncrementLost(c) == c
AtomicCounterIncrementStore(c) == c + 1

\* A reset that leaves the mapped counter as it was.
AtomicCounterResetSkipped(c) == c

\* AtomicCounter::reset: memset of the mapped counter to 0.
AtomicCounterReset(c) == 0

\* A wait that issues no barrier.
AtomicCounterWaitNone(p) == p

\* AtomicCounter::wait: glMemoryBarrier(GL_ATOMIC_COUNTER_BARRIER_BIT).
AtomicCounterWait(p) == p \ {"fs_counter", "cs_counter"}

\* Program::wait, called after the dispatch: the memory barrier that makes the
\* compute pass's writes visible to the passes that follow.
ProgramWait(p) == p \ {"cs_counter", "cs_ssbo"}

\* The seeding test with the boundary on the wrong side: a texel whose
\* roughness equals the threshold returns without seeding.
SeedsRayStrict(rough, thr) == rough < thr

\* The seeding test left out: every fragment seeds.
SeedsRayAlways(rough, thr) == TRUE

\* Fragment shader: "if (roughness_texel.x > roughnessThreshold) return;".
SeedsRay(rough, thr) == ~(rough > thr)

\* Depth test of the G-buffer FBO (GL_LESS against the stored depth).
DepthTest(d, stored) == d < stored

\* glClearTexImage(rayBufferIndexTex, ..., &data) with data = -1.
ClearRayIndexTex(tex) == [p \in Pixels |-> NoRay]

\* GL state of a fresh context, as far as the passes change it: colour writes
\* on, face culling off with back faces selected, default framebuffer bound.
DefaultGlState ==
    [colorMask |-> TRUE, cullFace |-> FALSE, cullMode |-> "back", fbo |-> "default"]

\* A resource bound to an indexed binding point of a target.
Binding(target, point, resource) ==
    [target |-> target, point |-> point, resource |-> resource]

\* PipelineGeometry::render: rayBuffer.render(0), rayBufferCounter.render(0).
GeometryBindings ==
    {Binding("ssbo", 0, "rayBuffer"), Binding("atomic", 0, "rayBufferCounter")}

\* PipelineRayTracing::render, "Bindings:".
RayTracingBindings ==
    {Binding("ssbo", 0, "triangles"), Binding("ssbo", 1, "bspheres"),
     Binding("ssbo", 2, "materials"), Binding("ssbo", 3, "rayBuffer"),
     Binding("atomic", 4, "rayBufferCounter"), Binding("ssbo", 5, "workgroupCount")}

\* PipelineFullscreenLighting::render: the four G-buffer textures and the ray
\* buffer.
LightingBindings ==
    {Binding("texture", 0, "posTex"), Binding("texture", 1, "normalTex"),
     Binding("texture", 2, "matTex"), Binding("texture", 3, "rayBufferIndexTex"),
     Binding("ssbo", 4, "rayBuffer")}

\* GL state at the end of an iteration of the light loop of the shadow render
\* ("Redo OpenGL settings"): depth FBO still bound.
AfterLight(g) ==
    [colorMask |-> TRUE, cullFace |-> FALSE, cullMode |-> "back", fbo |-> "shadow"]

\* Eng::Fbo::reset(width, height): the default framebuffer is bound again.
FboReset(g) == [g EXCEPT !.fbo = "default"]

\* GL state after the light loop has run over lights lights, then Fbo::reset.
AfterLights(g, lights) == FboReset(IF lights > 0 THEN AfterLight(g) ELSE g)

\* ------------------------------------------------------------------- Init
\* State after construction of the pipelines: nothing built, nothing drawn,
\* nothing migrated.
Constructed ==
    /\ geomDirty = TRUE
    /\ rtDirty = TRUE
    /\ shadowDirty = TRUE
    /\ lightDirty = TRUE
    /\ geomResult = FALSE
    /\ rtResult = FALSE
    /\ rtCall = NoCall
    /\ roughnessThreshold = 0
    /\ nrOfBounces = 0
    /\ counter = 0
    /\ rayData = [r \in Records |-> EmptyRecord]
    /\ rayIndexTex = [p \in Pixels |-> NoRay]
    /\ depthTex = [p \in Pixels |-> DepthFar]
    /\ matTex = [p \in Pixels |-> 0]
    /\ fragsDone = 0
    /\ inv = [i \in Records |-> InvOff]
    /\ pending = {}
    /\ shadowMapCount = 0
    /\ shadowDrawn = 0
    /\ triangles = <<>>
    /\ bspheres = <<>>
    /\ materials = <<>>
    /\ bound = [pass \in Passes |-> {}]
    /\ glState = DefaultGlState
    /\ nrOfLights = 0
    /\ nrOfTriangles = 0
    /\ nrOfMeshes = 0
    /\ nrOfMaterials = 0
    /\ lastResult = TRUE
    /\ argsValid = TRUE
    /\ failed = FALSE
    /\ builds = [pass \in Passes |-> 0]
    /\ initFailed = {}
    /\ handedOut = [r \in Records |-> 0]
    /\ seedCount = 0
    /\ nrZeroRough = 0
    /\ nextWriters = [r \in Records |-> {}]
    /\ staleAtReset = FALSE

\* The passes that share the ray buffers, in the order main() calls them.
RayLoop == <<"geometry", "raytracing", "lighting">>

\* The frame loop seen from the ray buffers, on a scene of one light and one
\* mesh.  The indirect dispatch command is filled by no code of the passes, so
\* its workgroup count is whatever the buffer holds.
Init ==
    /\ Constructed
    /\ call = NoFunction
    /\ loopBody = RayLoop
    /\ hostPc = "geometry"
    /\ sceneLights = 1
    /\ sceneFaces = <<1>>
    /\ cmd \in GroupCounts

\* ----------------------------------------------------------- shadow pass
\* PipelineShadowMapping::render, "Safety net": list == Eng::List::empty.
ShadowRenderInvalid ==
    /\ hostPc = "shadow"
    /\ lastResult' = FALSE
    /\ argsValid' = FALSE
    /\ failed' = TRUE
    /\ hostPc' = NextCall("shadow")
    /\ UNCHANGED <<rayVars, sceneVars, shadowVars, lightDirty, migrateVars,
                   builds, initFailed, glVars, call>>

\* PipelineShadowMapping::render, lazy loading with init(nrOfLights) failing
\* once `created` depth maps exist: nrOfLights <= 0 or the program build
\* fails (none exists yet), or depthMaps[created].create fails.  Every map
\* created before has already done shadowMapCount += 1.
ShadowRenderInitFailed(created) ==
    /\ hostPc = "shadow"
    /\ shadowDirty
    /\ created < MAX_LIGHTS
    /\ created = 0 \/ created < sceneLights
    /\ shadowMapCount + created <= MaxShadowMapCount
    /\ shadowMapCount' = shadowMapCount + created
    /\ initFailed' = initFailed \cup {"shadow"}
    /\ lastResult' = FALSE
    /\ argsValid' = TRUE
    /\ failed' = TRUE
    /\ hostPc' = NextCall("shadow")
    /\ UNCHANGED <<rayVars, sceneVars, shadowDirty, shadowDrawn, lightDirty,
                   migrateVars, builds, glVars, call>>

\* main(), "Update list": list.reset() and list.process(root) before the
\* shadow call of a frame, on a scene graph whose number of lights is now n.
ListChanges(n) ==
    /\ hostPc = "shadow"
    /\ n # sceneLights
    /\ sceneLights' = n
    /\ UNCHANGED <<hostPc, rayVars, loopBody, sceneFaces, shadowVars,
                   lightDirty, migrateVars, lastResult, argsValid, failed,
                   builds, initFailed, glVars, call>>

\* PipelineShadowMapping::render returning false from inside the light loop
\* at light i: the light is Eng::Light::empty, or attachDepthTexture(i) finds
\* the FBO invalid.  The lights before i have been drawn, each leaving the
\* shadow FBO bound; Fbo::reset comes only after the loop.
ShadowRenderLoopFailed(i) ==
    /\ hostPc = "shadow"
    /\ sceneLights <= MAX_LIGHTS
    /\ i < sceneLights
    /\ shadowDirty => /\ ManagedInit("shadow" \in initFailed)
                      /\ shadowMapCount + sceneLights <= MaxShadowMapCount
    /\ shadowMapCount' = IF shadowDirty THEN shadowMapCount + sceneLights
                                        ELSE shadowMapCount
    /\ shadowDirty' = LazyInit(shadowDirty)
    /\ builds' = Built(builds, "shadow", shadowDirty)
    /\ shadowDrawn' = i
    /\ glState' = IF i > 0 THEN AfterLight(glState) ELSE glState
    /\ lastResult' = FALSE
    /\ argsValid' = TRUE
    /\ failed' = TRUE
    /\ hostPc' = NextCall("shadow")
    /\ UNCHANGED <<bound, nrOfLights>>
    /\ UNCHANGED <<rayVars, sceneVars, lightDirty, migrateVars, initFailed,
                   call>>

\* A shadow render that also clears the ray buffer's counter.
ShadowRenderResetsCounter ==
    /\ hostPc = "shadow"
    /\ sceneLights <= MAX_LIGHTS
    /\ shadowDirty => /\ ManagedInit("shadow" \in initFailed)
                      /\ sceneLights > 0
                      /\ shadowMapCount + sceneLights <= MaxShadowMapCount
    /\ shadowMapCount' = IF shadowDirty THEN shadowMapCount + sceneLights
                                        ELSE shadowMapCount
    /\ shadowDirty' = LazyInit(shadowDirty)
    /\ builds' = Built(builds, "shadow", shadowDirty)
    /\ shadowDrawn' = sceneLights
    /\ glState' = AfterLights(glState, sceneLights)
    /\ lastResult' = TRUE
    /\ argsValid' = TRUE
    /\ hostPc' = NextCall("shadow")
    /\ counter' = 0
    /\ UNCHANGED <<bound, nrOfLights>>
    /\ UNCHANGED <<geomDirty, rtDirty, geomResult, rtResult, rtCall,
                   roughnessThreshold, nrOfBounces, rayData, rayIndexTex,
                   depthTex, matTex, cmd, fragsDone, inv, pending, handedOut,
                   seedCount, nrZeroRough, nextWriters, staleAtReset>>
    /\ UNCHANGED <<sceneVars, lightDirty, migrateVars, failed, initFailed,
                   call>>

\* PipelineShadowMapping::render on a list of at most MAX_LIGHTS lights: lazy
\* init(list.getNrOfLights()) when dirty, one depth map created and counted per
\* light, then one depth map drawn per light.
ShadowRender ==
    /\ hostPc = "shadow"
    /\ sceneLights <= MAX_LIGHTS
    /\ shadowDirty => /\ ManagedInit("shadow" \in initFailed)
                      /\ sceneLights > 0
                      /\ shadowMapCount + sceneLights <= MaxShadowMapCount
    /\ shadowMapCount' = IF shadowDirty THEN shadowMapCount + sceneLights
                                        ELSE shadowMapCount
    /\ shadowDirty' = LazyInit(shadowDirty)
    /\ builds' = Built(builds, "shadow", shadowDirty)
    /\ shadowDrawn' = sceneLights
    /\ glState' = AfterLights(glState, sceneLights)
    /\ lastResult' = TRUE
    /\ argsValid' = TRUE
    /\ hostPc' = NextCall("shadow")
    /\ UNCHANGED <<bound, nrOfLights>>
    /\ UNCHANGED <<rayVars, sceneVars, lightDirty, migrateVars, failed,
                   initFailed, call>>

\* PipelineShadowMapping::render on a list of more than MAX_LIGHTS lights:
\* init and the render loop index depthMaps[i] with i >= MAX_LIGHTS, outside
\* the array (the members after it are fbo and shadowMapCount).  What the
\* build does with that is not defined: the process dies; or create/attach on
\* the bytes found there returns false, after MAX_LIGHTS maps; or the loops
\* run on to the last light.
ShadowRenderOutOfBounds(outcome) ==
    /\ hostPc = "shadow"
    /\ sceneLights > MAX_LIGHTS
    /\ shadowDirty => ManagedInit("shadow" \in initFailed)
    /\ \/ /\ outcome = "crash"
          /\ hostPc' = "crashed"
          /\ UNCHANGED <<shadowVars, builds, initFailed, lastResult, argsValid,
                         failed, glState>>
       \/ /\ outcome = "failed"
          /\ shadowDirty => shadowMapCount + MAX_LIGHTS <= MaxShadowMapCount
          /\ shadowMapCount' = IF shadowDirty THEN shadowMapCount + MAX_LIGHTS
                                              ELSE shadowMapCount
          /\ shadowDrawn' = IF shadowDirty THEN shadowDrawn ELSE MAX_LIGHTS
          /\ glState' = IF shadowDirty THEN glState ELSE AfterLight(glState)
          /\ initFailed' = IF shadowDirty THEN initFailed \cup {"shadow"}
                                          ELSE initFailed
          /\ lastResult' = FALSE
          /\ argsValid' = TRUE
          /\ failed' = TRUE
          /\ hostPc' = NextCall("shadow")
          /\ UNCHANGED <<shadowDirty, builds>>
       \/ /\ outcome = "drawn"
          /\ shadowDirty => shadowMapCount + sceneLights <= MaxShadowMapCount
          /\ shadowMapCount' = IF shadowDirty THEN shadowMapCount + sceneLights
                                              ELSE shadowMapCount
          /\ shadowDirty' = LazyInit(shadowDirty)
          /\ builds' = Built(builds, "shadow", shadowDirty)
          /\ shadowDrawn' = sceneLights
          /\ glState' = AfterLights(glState, sceneLights)
          /\ lastResult' = TRUE
          /\ argsValid' = TRUE
          /\ hostPc' = NextCall("shadow")
          /\ UNCHANGED <<failed, initFailed>>
    /\ UNCHANGED <<rayVars, sceneVars, lightDirty, migrateVars, bound,
                   nrOfLights, call>>

\* --------------------------------------------------------- geometry pass
\* The safety net placed after the lazy loading: a call with an empty list
\* builds the pass before it returns false.
GeometryRenderInvalidAfterInit ==
    /\ hostPc = "geometry"
    /\ geomDirty' = FALSE
    /\ geomResult' = FALSE
    /\ lastResult' = FALSE
    /\ argsValid' = FALSE
    /\ failed' = TRUE
    /\ hostPc' = NextCall("geometry")
    /\ UNCHANGED <<rtDirty, rtResult, rtCall, roughnessThreshold,
                   nrOfBounces, counter, rayData, rayIndexTex, depthTex, matTex,
                   cmd, fragsDone, inv, pending, handedOut, seedCount,
                   nrZeroRough, nextWriters, staleAtReset, sceneVars,
                   shadowVars, lightDirty, migrateVars, builds, initFailed,
                   glVars, call>>

\* PipelineGeometry::render, "Safety net": list == Eng::List::empty.
GeometryRenderInvalid ==
    /\ hostPc = "geometry"
    /\ geomResult' = FALSE
    /\ lastResult' = FALSE
    /\ argsValid' = FALSE
    /\ failed' = TRUE
    /\ hostPc' = NextCall("geometry")
    /\ UNCHANGED <<geomDirty, rtDirty, rtResult, rtCall, roughnessThreshold,
                   nrOfBounces, counter, rayData, rayIndexTex, depthTex, matTex,
                   cmd, fragsDone, inv, pending, handedOut, seedCount,
                   nrZeroRough, nextWriters, staleAtReset, sceneVars,
                   shadowVars, lightDirty, migrateVars, builds, initFailed,
                   glVars, call>>

\* PipelineGeometry::render, lazy loading with init() failing (program build,
\* texture creation or FBO validation): returns before setDirty(false).
GeometryRenderInitFailed ==
    /\ hostPc = "geometry"
    /\ geomDirty
    /\ initFailed' = initFailed \cup {"geometry"}
    /\ geomResult' = FALSE
    /\ lastResult' = FALSE
    /\ argsValid' = TRUE
    /\ failed' = TRUE
    /\ hostPc' = NextCall("geometry")
    /\ UNCHANGED <<geomDirty, rtDirty, rtResult, rtCall, roughnessThreshold,
                   nrOfBounces, counter, rayData, rayIndexTex, depthTex, matTex,
                   cmd, fragsDone, inv, pending, handedOut, seedCount,
                   nrZeroRough, nextWriters, staleAtReset, sceneVars,
                   shadowVars, lightDirty, migrateVars, builds, glVars, call>>

\* PipelineGeometry::render up to list.render: lazy init when dirty, uniforms,
\* bindings, counter reset, FBO clear, ray-index clear.
GeometryRenderBegin(thr) ==
    /\ hostPc = "geometry"
    /\ geomDirty => ManagedInit("geometry" \in initFailed)
    /\ geomDirty' = LazyInit(geomDirty)
    /\ builds' = Built(builds, "geometry", geomDirty)
    /\ argsValid' = TRUE
    /\ roughnessThreshold' = thr
    /\ counter' = AtomicCounterReset(counter)
    /\ rayIndexTex' = ClearRayIndexTex(rayIndexTex)
    /\ depthTex' = [p \in Pixels |-> DepthFar]
    /\ matTex' = [p \in Pixels |-> 0]
    /\ staleAtReset' = (counter > 0 \/ \E p \in Pixels : rayIndexTex[p] # NoRay)
    /\ bound' = [bound EXCEPT !["geometry"] = GeometryBindings]
    /\ glState' = [glState EXCEPT !.fbo = "geometry"]
    /\ hostPc' = "fs"
    /\ UNCHANGED nrOfLights
    /\ UNCHANGED <<rtDirty, geomResult, rtResult, rtCall, nrOfBounces, rayData,
                   cmd, fragsDone, inv, pending, handedOut, seedCount,
                   nrZeroRough, nextWriters, sceneVars, shadowVars, lightDirty,
                   migrateVars, lastResult, failed, initFailed, call>>

\* One fragment of list.render(viewMatrix, meshes): main() of the fragment
\* shader for a fragment at pixel p with depth d and roughness texel rough,
\* then the depth test and the write of its outputs to the attachments.
FragmentShader(p, d, rough) ==
    LET seeds == SeedsRay(rough, roughnessThreshold)
        index == AtomicCounterIncrementValue(counter)
        rayDataId == IF seeds THEN index ELSE NoRay
        passes == DepthTest(d, depthTex[p])
    IN  /\ hostPc = "fs"
        /\ fragsDone < MaxFragments
        /\ seeds => counter < RecordCap
        /\ fragsDone' = fragsDone + 1
        /\ nrZeroRough' = IF rough = 0 THEN nrZeroRough + 1 ELSE nrZeroRough
        /\ counter' = IF seeds THEN AtomicCounterIncrementStore(counter) ELSE counter
        /\ handedOut' = IF seeds THEN [handedOut EXCEPT ![index] = @ + 1]
                                 ELSE handedOut
        /\ rayData' = IF seeds
                         THEN [rayData EXCEPT ![index] = [next |-> NoRay]]
                         ELSE rayData
        /\ pending' = IF seeds THEN pending \cup {"fs_counter", "fs_ssbo"} ELSE pending
        /\ depthTex' = IF passes THEN [depthTex EXCEPT ![p] = d] ELSE depthTex
        /\ matTex' = IF passes THEN [matTex EXCEPT ![p] = rough] ELSE matTex
        /\ rayIndexTex' = IF passes THEN [rayIndexTex EXCEPT ![p] = rayDataId]
                                   ELSE rayIndexTex
        /\ staleAtReset' = FALSE
        /\ UNCHANGED <<hostPc, geomDirty, rtDirty, geomResult, rtResult, rtCall,
                       roughnessThreshold, nrOfBounces, cmd, inv, seedCount,
                       nextWriters, sceneVars, shadowVars, lightDirty,
                       migrateVars, lastResult, argsValid, failed, builds,
                       initFailed, glVars, call>>

\* PipelineGeometry::render after list.render: rayBufferCounter.wait(), GL
\* state restored, return true.
GeometryRenderEnd ==
    /\ hostPc = "fs"
    /\ pending' = AtomicCounterWait(pending)
    /\ seedCount' = counter
    /\ geomResult' = TRUE
    /\ lastResult' = TRUE
    /\ fragsDone' = 0
    /\ staleAtReset' = FALSE
    /\ glState' = FboReset([glState EXCEPT !.cullMode = "back"])
    /\ hostPc' = NextCall("geometry")
    /\ UNCHANGED <<bound, nrOfLights>>
    /\ UNCHANGED <<geomDirty, rtDirty, rtResult, rtCall, roughnessThreshold,
                   nrOfBounces, counter, rayData, rayIndexTex, depthTex, matTex,
                   cmd, inv, handedOut, nrZeroRough, nextWriters, sceneVars,
                   shadowVars, lightDirty, migrateVars, argsValid, failed,
                   builds, initFailed, call>>

\* ------------------------------------------------------------------ migrate
\* PipelineRayTracing::migrate, "Safety net": list == Eng::List::empty.
MigrateInvalid ==
    /\ hostPc = "migrate"
    /\ lastResult' = FALSE
    /\ argsValid' = FALSE
    /\ failed' = TRUE
    /\ hostPc' = NextCall("migrate")
    /\ UNCHANGED <<rayVars, sceneVars, shadowVars, lightDirty, migrateVars,
                   builds, initFailed, glVars, call>>

\* The running face count that does not add the faces of a mesh but one per
\* mesh.
FacesBeforeOnePerMesh(m) == m

\* Faces of the first m meshes of the list (the running nrOfFaces of the 2nd
\* pass of migrate).
RECURSIVE FacesBefore(_)
FacesBefore(m) == IF m = 0 THEN 0 ELSE FacesBefore(m - 1) + sceneFaces[m]

\* allTriangles after the 2nd pass of migrate has gone through the first m
\* meshes: the faces of mesh m (renderable c = nrOfLights + m - 1) are
\* appended at the running nrOfFaces with t.matId = c - nrOfLights; "face"
\* stands for the vertex data copied from face f of mesh m.
RECURSIVE AllTriangles(_, _)
AllTriangles(m, tpad) ==
    IF m = 0
      THEN <<>>
      ELSE AllTriangles(m - 1, tpad) \o
           [f \in 1 .. sceneFaces[m] |->
               [face |-> <<m, f>>, matId |-> m - 1,
                _pad |-> tpad[FacesBefore(m - 1) + f]]]

\* allMaterials: nrOfRenderables records, the one at c - nrOfLights filled
\* from the material of mesh c; the records after the meshes keep the zeros
\* the vector was created with.
AllMaterials ==
    [k \in 1 .. (sceneLights + Len(sceneFaces)) |->
        IF k <= Len(sceneFaces) THEN [mesh |-> k] ELSE [mesh |-> 0]]

\* PipelineRayTracing::migrate: one TriangleStruct per face and one
\* BSphereStruct per mesh, each a local whose named fields are assigned and
\* whose _pad is not, copied whole into the vectors the SSBOs are created
\* from; one MaterialStruct per mesh; then the three counts.  tpad and bpad
\* are the _pad bytes the locals happen to hold.
Migrate(tpad, bpad) ==
    LET nrOfFaces == FacesBefore(Len(sceneFaces))
    IN  /\ hostPc = "migrate"
        /\ tpad \in [1 .. nrOfFaces -> Indeterminate]
        /\ bpad \in [1 .. Len(sceneFaces) -> Indeterminate]
        /\ triangles' = AllTriangles(Len(sceneFaces), tpad)
        /\ bspheres' = [m \in 1 .. Len(sceneFaces) |->
                           [firstTriangle |-> FacesBefore(m - 1),
                            nrOfTriangles |-> sceneFaces[m],
                            _pad |-> bpad[m]]]
        /\ materials' = AllMaterials
        /\ nrOfTriangles' = nrOfFaces
        /\ nrOfMeshes' = Len(sceneFaces)
        /\ nrOfMaterials' = sceneLights + Len(sceneFaces)
        /\ lastResult' = TRUE
        /\ argsValid' = TRUE
        /\ hostPc' = NextCall("migrate")
        /\ UNCHANGED <<rayVars, sceneVars, shadowVars, lightDirty, failed,
                       builds, initFailed, glVars, call>>

\* -------------------------------------------------------- ray-tracing pass
\* PipelineRayTracing::render, "Safety net": empty camera or empty list.
RayTracingRenderInvalid(b) ==
    /\ hostPc = "raytracing"
    /\ rtCall' = [valid |-> FALSE, nrOfBounces |-> b]
    /\ rtResult' = FALSE
    /\ lastResult' = FALSE
    /\ argsValid' = FALSE
    /\ failed' = TRUE
    /\ hostPc' = NextCall("raytracing")
    /\ UNCHANGED <<geomDirty, rtDirty, geomResult, roughnessThreshold,
                   nrOfBounces, counter, rayData, rayIndexTex, depthTex, matTex,
                   cmd, fragsDone, inv, pending, handedOut, seedCount,
                   nrZeroRough, nextWriters, staleAtReset, sceneVars,
                   shadowVars, lightDirty, migrateVars, builds, initFailed,
                   glVars, call>>

\* The zero-bounce return placed after the lazy loading: the call builds the
\* pass before it returns.
RayTracingRenderNoBounceAfterInit ==
    /\ hostPc = "raytracing"
    /\ rtCall' = [valid |-> TRUE, nrOfBounces |-> 0]
    /\ rtDirty' = FALSE
    /\ rtResult' = TRUE
    /\ lastResult' = TRUE
    /\ argsValid' = TRUE
    /\ hostPc' = NextCall("raytracing")
    /\ UNCHANGED <<geomDirty, geomResult, roughnessThreshold,
                   nrOfBounces, counter, rayData, rayIndexTex, depthTex, matTex,
                   cmd, fragsDone, inv, pending, handedOut, seedCount,
                   nrZeroRough, nextWriters, staleAtReset, sceneVars,
                   shadowVars, lightDirty, migrateVars, failed, builds,
                   initFailed, glVars, call>>

\* PipelineRayTracing::render, "if (nrOfBounces == 0) return true;", which
\* comes before the cache update and the lazy loading.
RayTracingRenderNoBounce ==
    /\ hostPc = "raytracing"
    /\ rtCall' = [valid |-> TRUE, nrOfBounces |-> 0]
    /\ rtResult' = TRUE
    /\ lastResult' = TRUE
    /\ argsValid' = TRUE
    /\ hostPc' = NextCall("raytracing")
    /\ UNCHANGED <<geomDirty, rtDirty, geomResult, roughnessThreshold,
                   nrOfBounces, counter, rayData, rayIndexTex, depthTex, matTex,
                   cmd, fragsDone, inv, pending, handedOut, seedCount,
                   nrZeroRough, nextWriters, staleAtReset, sceneVars,
                   shadowVars, lightDirty, migrateVars, failed, builds,
                   initFailed, glVars, call>>

\* init() that marks the pass clean before its build fails.
RayTracingRenderInitFailedClean(b) ==
    /\ hostPc = "raytracing"
    /\ b > 0
    /\ rtDirty
    /\ rtDirty' = FALSE
    /\ initFailed' = initFailed \cup {"raytracing"}
    /\ rtCall' = [valid |-> TRUE, nrOfBounces |-> b]
    /\ rtResult' = FALSE
    /\ lastResult' = FALSE
    /\ argsValid' = TRUE
    /\ failed' = TRUE
    /\ hostPc' = NextCall("raytracing")
    /\ UNCHANGED <<geomDirty, geomResult, roughnessThreshold,
                   nrOfBounces, counter, rayData, rayIndexTex, depthTex, matTex,
                   cmd, fragsDone, inv, pending, handedOut, seedCount,
                   nrZeroRough, nextWriters, staleAtReset, sceneVars,
                   shadowVars, lightDirty, migrateVars, builds, glVars, call>>

\* PipelineRayTracing::render, lazy loading with init() failing (program
\* build): returns before setDirty(false).
RayTracingRenderInitFailed(b) ==
    /\ hostPc = "raytracing"
    /\ b > 0
    /\ rtDirty
    /\ initFailed' = initFailed \cup {"raytracing"}
    /\ rtCall' = [valid |-> TRUE, nrOfBounces |-> b]
    /\ rtResult' = FALSE
    /\ lastResult' = FALSE
    /\ argsValid' = TRUE
    /\ failed' = TRUE
    /\ hostPc' = NextCall("raytracing")
    /\ UNCHANGED <<geomDirty, rtDirty, geomResult, roughnessThreshold,
                   nrOfBounces, counter, rayData, rayIndexTex, depthTex, matTex,
                   cmd, fragsDone, inv, pending, handedOut, seedCount,
                   nrZeroRough, nextWriters, staleAtReset, sceneVars,
                   shadowVars, lightDirty, migrateVars, builds, glVars, call>>

\* PipelineRayTracing::render up to program.computeIndirect: lazy init when
\* dirty, bindings, uniforms (the bounce count goes to the shader as passed),
\* and the indirect dispatch of num_groups_x workgroups of local_size_x
\* invocations.
RayTracingRenderBegin(b) ==
    /\ hostPc = "raytracing"
    /\ b > 0
    /\ rtCall' = [valid |-> TRUE, nrOfBounces |-> b]
    /\ argsValid' = TRUE
    /\ rtDirty => ManagedInit("raytracing" \in initFailed)
    /\ rtDirty' = LazyInit(rtDirty)
    /\ builds' = Built(builds, "raytracing", rtDirty)
    /\ nrOfBounces' = b
    /\ inv' = [i \in Records |-> IF i \in Launched(cmd) THEN InvStart ELSE InvOff]
    /\ nextWriters' = [r \in Records |-> {}]
    /\ bound' = [bound EXCEPT !["raytracing"] = RayTracingBindings]
    /\ hostPc' = "cs"
    /\ UNCHANGED <<glState, nrOfLights>>
    /\ UNCHANGED <<geomDirty, geomResult, rtResult, roughnessThreshold, counter,
                   rayData, rayIndexTex, depthTex, matTex, cmd, fragsDone,
                   pending, handedOut, seedCount, nrZeroRough, staleAtReset,
                   sceneVars, shadowVars, lightDirty, migrateVars, lastResult,
                   failed, initFailed, call>>

\* What the compute steps leave alone.
ComputeKeeps ==
    UNCHANGED <<hostPc, geomDirty, rtDirty, geomResult, rtResult, rtCall,
                roughnessThreshold, nrOfBounces, rayIndexTex, depthTex, matTex,
                cmd, fragsDone, seedCount, nrZeroRough, staleAtReset, sceneVars,
                shadowVars, lightDirty, migrateVars, lastResult, argsValid,
                failed, builds, initFailed, glVars, call>>

\* Compute shader main(): index = gl_GlobalInvocationID.x, nrOfRays =
\* atomicCounter(counter), range test, ray read from rayData[index].
ComputeMain(i) ==
    /\ hostPc = "cs"
    /\ inv[i].pc = "start"
    /\ inv' = [inv EXCEPT ![i] = IF i >= counter THEN InvDone(0, FALSE)
                                                ELSE InvLoop(i, 0, FALSE)]
    /\ ComputeKeeps
    /\ UNCHANGED <<counter, rayData, pending, handedOut, nextWriters>>

\* rayCasting, one iteration whose intersect(ray, hit) finds a triangle:
\* "uint newIndex = atomicCounterIncrement(counter);".
RayCastingHit(i) ==
    LET newIndex == AtomicCounterIncrementValue(counter)
    IN  /\ hostPc = "cs"
        /\ inv[i].pc = "loop"
        /\ TRUE \in Intersect(inv[i].missed)
        /\ counter < RecordCap
        /\ counter' = AtomicCounterIncrementStore(counter)
        /\ handedOut' = [handedOut EXCEPT ![newIndex] = @ + 1]
        /\ pending' = pending \cup {"cs_counter"}
        /\ inv' = [inv EXCEPT ![i].pc = "write", ![i].newIndex = newIndex]
        /\ ComputeKeeps
        /\ UNCHANGED <<rayData, nextWriters>>

\* rayCasting, an iteration whose intersect(ray, hit) finds nothing: nothing
\* is written and the ray is left as it is; c++ and the loop test.
RayCastingMissOnce(i) ==
    /\ hostPc = "cs"
    /\ inv[i].pc = "loop"
    /\ FALSE \in Intersect(inv[i].missed)
    /\ inv' = [inv EXCEPT ![i] =
                IF inv[i].c + 1 < nrOfBounces
                  THEN InvLoop(inv[i].index, inv[i].c + 1, TRUE)
                  ELSE InvDone(inv[i].index, TRUE)]
    /\ ComputeKeeps
    /\ UNCHANGED <<counter, rayData, pending, handedOut, nextWriters>>

\* rayCasting, an iteration whose intersect(ray, hit) finds nothing, taken
\* together with the iterations after it: the ray is left as it is, so they
\* find nothing either and the loop runs out without a write.
RayCastingMiss(i) ==
    /\ hostPc = "cs"
    /\ inv[i].pc = "loop"
    /\ FALSE \in Intersect(inv[i].missed)
    /\ inv' = [inv EXCEPT ![i] = InvDone(0, FALSE)]
    /\ ComputeKeeps
    /\ UNCHANGED <<counter, rayData, pending, handedOut, nextWriters>>

\* rayCasting, the writes of a hit iteration: rayData[index].next = newIndex,
\* index = newIndex, the payload of rayData[index], rayData[index].next = -1,
\* the next ray, c++ and the loop test.
RayCastingWrite(i) ==
    LET index == inv[i].index
        newIndex == inv[i].newIndex
    IN  /\ hostPc = "cs"
        /\ inv[i].pc = "write"
        /\ newIndex < RecordCap
        /\ rayData' = [rayData EXCEPT ![index].next = newIndex,
                                      ![newIndex] = [next |-> NoRay]]
        /\ nextWriters' = [nextWriters EXCEPT ![index] = @ \cup {i},
                                              ![newIndex] = @ \cup {i}]
        /\ pending' = pending \cup {"cs_ssbo"}
        /\ inv' = [inv EXCEPT ![i] =
                    IF inv[i].c + 1 < nrOfBounces
                      THEN InvLoop(newIndex, inv[i].c + 1, FALSE)
                      ELSE InvDone(0, FALSE)]
        /\ ComputeKeeps
        /\ UNCHANGED <<counter, handedOut>>

\* Outcomes of a shader store outside the storage of a buffer: the process
\* dies, or the store is dropped.
StoreOutsideOutcomes == {"crash", "discarded"}

\* rayCasting, a hit iteration on a full ray buffer: atomicCounterIncrement
\* is not compared with the size of the buffer and hands out the next index.
RayCastingHitOverflow(i) ==
    LET newIndex == AtomicCounterIncrementValue(counter)
    IN  /\ hostPc = "cs"
        /\ inv[i].pc = "loop"
        /\ TRUE \in Intersect(inv[i].missed)
        /\ RecordCap = RayBufferCapacity
        /\ counter >= RayBufferCapacity
        /\ counter < RayBufferCapacity + MaxOverflow
        /\ counter' = AtomicCounterIncrementStore(counter)
        /\ pending' = pending \cup {"cs_counter"}
        /\ inv' = [inv EXCEPT ![i].pc = "write", ![i].newIndex = newIndex]
        /\ ComputeKeeps
        /\ UNCHANGED <<rayData, nextWriters, handedOut>>

\* rayCasting, the writes of a hit iteration whose newIndex lies past the end
\* of the ray buffer: rayData[index].next = newIndex goes to the record the
\* chain is at (when that one is inside the buffer), the stores to
\* rayData[newIndex] go outside the buffer.
RayCastingWriteOverflow(i, outcome) ==
    LET index == inv[i].index
        newIndex == inv[i].newIndex
    IN  /\ hostPc = "cs"
        /\ inv[i].pc = "write"
        /\ newIndex >= RayBufferCapacity
        /\ \/ /\ outcome = "crash"
              /\ hostPc' = "crashed"
              /\ UNCHANGED <<rayData, nextWriters, pending, inv>>
           \/ /\ outcome = "discarded"
              /\ rayData' = IF index \in Records
                               THEN [rayData EXCEPT ![index].next = newIndex]
                               ELSE rayData
              /\ nextWriters' = IF index \in Records
                                   THEN [nextWriters EXCEPT ![index] = @ \cup {i}]
                                   ELSE nextWriters
              /\ pending' = pending \cup {"cs_ssbo"}
              /\ inv' = [inv EXCEPT ![i] =
                          IF inv[i].c + 1 < nrOfBounces
                            THEN InvLoop(newIndex, inv[i].c + 1, FALSE)
                            ELSE InvDone(0, FALSE)]
              /\ UNCHANGED hostPc
        /\ UNCHANGED <<geomDirty, rtDirty, geomResult, rtResult, rtCall,
                       roughnessThreshold, nrOfBounces, rayIndexTex, depthTex,
                       matTex, cmd, fragsDone, seedCount, nrZeroRough,
                       staleAtReset, sceneVars, shadowVars, lightDirty,
                       migrateVars, lastResult, argsValid, failed, builds,
                       initFailed, glVars, call>>
        /\ UNCHANGED <<counter, handedOut>>

\* PipelineRayTracing::render after the dispatch has run: program.wait(),
\* return true.
RayTracingRenderEnd ==
    /\ hostPc = "cs"
    /\ \A i \in Records : inv[i].pc \in {"off", "done"}
    /\ pending' = ProgramWait(pending)
    /\ inv' = [i \in Records |-> InvOff]
    /\ rtResult' = TRUE
    /\ lastResult' = TRUE
    /\ hostPc' = NextCall("raytracing")
    /\ UNCHANGED <<geomDirty, rtDirty, geomResult, rtCall, roughnessThreshold,
                   nrOfBounces, counter, rayData, rayIndexTex, depthTex, matTex,
                   cmd, fragsDone, handedOut, seedCount, nrZeroRough,
                   nextWriters, staleAtReset, sceneVars, shadowVars, lightDirty,
                   migrateVars, argsValid, failed, builds, initFailed,
                   glVars, call>>

\* ----------------------------------------------------------- lighting pass
\* The loop body of main() ends with the lighting call, and with it the
\* history kept of the frame (the values the passes returned, which main()
\* drops, and the model's records).
FrameEnds ==
    /\ hostPc' = NextCall("lighting")
    /\ geomResult' = FALSE
    /\ rtResult' = FALSE
    /\ rtCall' = NoCall
    /\ failed' = FALSE
    /\ handedOut' = [r \in Records |-> 0]
    /\ seedCount' = 0
    /\ nrZeroRough' = 0
    /\ nextWriters' = [r \in Records |-> {}]
    /\ staleAtReset' = FALSE

\* PipelineFullscreenLighting::render, "Safety net": empty list.
LightingRenderInvalid ==
    /\ hostPc = "lighting"
    /\ lastResult' = FALSE
    /\ argsValid' = FALSE
    /\ FrameEnds
    /\ UNCHANGED <<geomDirty, rtDirty, roughnessThreshold, nrOfBounces, counter,
                   rayData, rayIndexTex, depthTex, matTex, cmd, fragsDone, inv,
                   pending, sceneVars, shadowVars, lightDirty, migrateVars,
                   builds, initFailed, glVars, call>>

\* PipelineFullscreenLighting::render, lazy loading with init() failing
\* (program build or VAO): returns before setDirty(false).
LightingRenderInitFailed ==
    /\ hostPc = "lighting"
    /\ lightDirty
    /\ initFailed' = initFailed \cup {"lighting"}
    /\ lastResult' = FALSE
    /\ argsValid' = TRUE
    /\ FrameEnds
    /\ UNCHANGED <<geomDirty, rtDirty, roughnessThreshold, nrOfBounces, counter,
                   rayData, rayIndexTex, depthTex, matTex, cmd, fragsDone, inv,
                   pending, sceneVars, shadowVars, lightDirty, migrateVars,
                   builds, glVars, call>>

\* PipelineFullscreenLighting::render: lazy init when dirty, then it reads the
\* G-buffer, the ray-index image and the ray records and draws the fullscreen
\* triangle; it writes none of the buffers the other passes own.
LightingRender ==
    /\ hostPc = "lighting"
    /\ shadowMapCount <= MAX_LIGHTS
    /\ lightDirty => ManagedInit("lighting" \in initFailed)
    /\ lightDirty' = LazyInit(lightDirty)
    /\ builds' = Built(builds, "lighting", lightDirty)
    /\ bound' = [bound EXCEPT !["lighting"] = LightingBindings]
    /\ nrOfLights' = sceneLights
    /\ glState' = FboReset(glState)
    /\ lastResult' = TRUE
    /\ argsValid' = TRUE
    /\ FrameEnds
    /\ UNCHANGED <<geomDirty, rtDirty, roughnessThreshold, nrOfBounces, counter,
                   rayData, rayIndexTex, depthTex, matTex, cmd, fragsDone, inv,
                   pending, sceneVars, shadowVars, migrateVars, initFailed,
                   call>>

\* PipelineFullscreenLighting::render with getShadowMapCount() above
\* MAX_LIGHTS: the handle loop writes handles[i] and reads getShadowMaps()[i]
\* with i >= MAX_LIGHTS, outside both arrays.  Not defined: the process dies,
\* or the call goes on as it does within bounds.
LightingRenderOutOfBounds(outcome) ==
    /\ hostPc = "lighting"
    /\ shadowMapCount > MAX_LIGHTS
    /\ lightDirty => ManagedInit("lighting" \in initFailed)
    /\ \/ /\ outcome = "crash"
          /\ hostPc' = "crashed"
          /\ UNCHANGED <<lightDirty, builds, lastResult, argsValid, geomResult,
                         rtResult, rtCall, failed, handedOut, seedCount,
                         nrZeroRough, nextWriters, staleAtReset, glVars>>
       \/ /\ outcome = "drawn"
          /\ lightDirty' = LazyInit(lightDirty)
          /\ builds' = Built(builds, "lighting", lightDirty)
          /\ bound' = [bound EXCEPT !["lighting"] = LightingBindings]
          /\ nrOfLights' = sceneLights
          /\ glState' = FboReset(glState)
          /\ lastResult' = TRUE
          /\ argsValid' = TRUE
          /\ FrameEnds
    /\ UNCHANGED <<geomDirty, rtDirty, roughnessThreshold, nrOfBounces, counter,
                   rayData, rayIndexTex, depthTex, matTex, cmd, fragsDone, inv,
                   pending, sceneVars, shadowVars, migrateVars, initFailed,
                   call>>

\* --------------------------------------------------------------- frame loop
\* main(): geometryPipe.render, raytracingPipe.render, lightingPipe.render per
\* frame on a valid list and camera, with the programs building.
Next ==
    \/ \E thr \in RoughnessLevels : GeometryRenderBegin(thr)
    \/ \E p \in Pixels, d \in DepthLevels, rough \in RoughnessLevels :
          FragmentShader(p, d, rough)
    \/ GeometryRenderEnd
    \/ RayTracingRenderNoBounce
    \/ \E b \in 1 .. MaxBounceArg : RayTracingRenderBegin(b)
    \/ \E i \in Records : ComputeMain(i)
    \/ \E i \in Records : RayCastingHit(i)
    \/ \E i \in Records : RayCastingMiss(i)
    \/ \E i \in Records : RayCastingWrite(i)
    \/ RayTracingRenderEnd
    \/ LightingRender

Spec == Init /\ [][Next]_vars

\* ------------------------------------------------- frame loop, the dispatch
\* The same loop on a scene whose fragments are all perfectly smooth and at
\* one depth, with a dispatch command of one workgroup and every bounce count
\* up to one above MAX_BOUNCES; the bounce loop is followed iteration by
\* iteration.
InitChains ==
    /\ Constructed
    /\ call = NoFunction
    /\ loopBody = RayLoop
    /\ hostPc = "geometry"
    /\ sceneLights = 1
    /\ sceneFaces = <<1>>
    /\ cmd = 1

NextChains ==
    \/ GeometryRenderBegin(0)
    \/ \E p \in Pixels : FragmentShader(p, 0, 0)
    \/ GeometryRenderEnd
    \/ \E b \in 1 .. (MAX_BOUNCES + 1) : RayTracingRenderBegin(b)
    \/ \E i \in Records : ComputeMain(i)
    \/ \E i \in Records : RayCastingHit(i)
    \/ \E i \in Records : RayCastingMissOnce(i)
    \/ \E i \in Records : RayCastingWrite(i)
    \/ RayTracingRenderEnd
    \/ LightingRender

SpecChains == InitChains /\ [][NextChains]_vars

\* ------------------------------------------------ frame loop, all passes
\* The five calls of the loop body of main(), in its order.
FullLoop == <<"shadow", "geometry", "migrate", "raytracing", "lighting">>

\* Outcomes of an access outside an array.
OutOfBoundsOutcomes == {"crash", "failed", "drawn"}

\* The whole loop on a list of one light and one mesh, with every way a pass
\* call returns: list or camera empty, init() failing, and the render itself.
\* The dispatch command holds no workgroup and the fragments are perfectly
\* smooth, at one depth and on the first pixel.
InitHost ==
    /\ Constructed
    /\ call = NoFunction
    /\ loopBody = FullLoop
    /\ hostPc = "shadow"
    /\ sceneLights = 1
    /\ sceneFaces = <<1>>
    /\ cmd = 0

NextHost ==
    \/ ShadowRenderInvalid
    \/ \E created \in 0 .. (MAX_LIGHTS - 1) : ShadowRenderInitFailed(created)
    \/ ShadowRender
    \/ GeometryRenderInvalid
    \/ GeometryRenderInitFailed
    \/ GeometryRenderBegin(0)
    \/ FragmentShader(0, 0, 0)
    \/ GeometryRenderEnd
    \/ MigrateInvalid
    \/ \E tpad \in [1 .. 1 -> Indeterminate], bpad \in [1 .. 1 -> Indeterminate] :
          Migrate(tpad, bpad)
    \/ \E b \in 0 .. MaxBounceArg : RayTracingRenderInvalid(b)
    \/ RayTracingRenderNoBounce
    \/ \E b \in 1 .. MaxBounceArg : RayTracingRenderInitFailed(b)
    \/ \E b \in 1 .. MaxBounceArg : RayTracingRenderBegin(b)
    \/ RayTracingRenderEnd
    \/ LightingRenderInvalid
    \/ LightingRenderInitFailed
    \/ LightingRender

SpecHost == InitHost /\ [][NextHost]_vars

\* ------------------------------------- frame loop, the ray buffer runs full
\* The loop of the dispatch, with the bounce counts of the frame loop and
\* with the hit iterations that find the ray buffer full.
NextOverflow ==
    \/ GeometryRenderBegin(0)
    \/ \E p \in Pixels : FragmentShader(p, 0, 0)
    \/ GeometryRenderEnd
    \/ \E b \in 1 .. MaxBounceArg : RayTracingRenderBegin(b)
    \/ \E i \in Records : ComputeMain(i)
    \/ \E i \in Records : RayCastingHit(i)
    \/ \E i \in Records : RayCastingHitOverflow(i)
    \/ \E i \in Records : RayCastingMiss(i)
    \/ \E i \in Records : RayCastingWrite(i)
    \/ \E i \in Records, outcome \in StoreOutsideOutcomes :
          RayCastingWriteOverflow(i, outcome)
    \/ RayTracingRenderEnd
    \/ LightingRender

SpecOverflow == InitChains /\ [][NextOverflow]_vars

\* ------------------------------------ frame loop, all passes, the dispatch
\* The whole loop on a list of one light and one mesh with every call
\* succeeding, a dispatch command of one workgroup, perfectly smooth fragments
\* at one depth and the compute invocations followed step by step.
InitFrame ==
    /\ Constructed
    /\ call = NoFunction
    /\ loopBody = FullLoop
    /\ hostPc = "shadow"
    /\ sceneLights = 1
    /\ sceneFaces = <<1>>
    /\ cmd = 1

NextFrame ==
    \/ ShadowRender
    \/ GeometryRenderBegin(0)
    \/ \E p \in Pixels : FragmentShader(p, 0, 0)
    \/ GeometryRenderEnd
    \/ \E tv \in Indeterminate, bv \in Indeterminate :
          Migrate([f \in 1 .. 1 |-> tv], [m \in 1 .. 1 |-> bv])
    \/ \E b \in 1 .. MaxBounceArg : RayTracingRenderBegin(b)
    \/ \E i \in Records : ComputeMain(i)
    \/ \E i \in Records : RayCastingHit(i)
    \/ \E i \in Records : RayCastingMiss(i)
    \/ \E i \in Records : RayCastingWrite(i)
    \/ RayTracingRenderEnd
    \/ LightingRender

SpecFrame == InitFrame /\ [][NextFrame]_vars

\* ------------------------------------------ frame loop, lights and shadows
\* The two passes that use the shadow maps, in the order main() calls them.
ShadowLoop == <<"shadow", "lighting">>

\* The shadow and lighting calls of the loop on a list of any number of
\* lights up to MaxSceneLights, with the ways init() fails.
InitShadow ==
    /\ Constructed
    /\ call = NoFunction
    /\ loopBody = ShadowLoop
    /\ hostPc = "shadow"
    /\ sceneLights \in 0 .. MaxSceneLights
    /\ sceneFaces = <<1>>
    /\ cmd = 0

NextShadow ==
    \/ \E created \in 0 .. (MAX_LIGHTS - 1) : ShadowRenderInitFailed(created)
    \/ ShadowRender
    \/ \E outcome \in OutOfBoundsOutcomes : ShadowRenderOutOfBounds(outcome)
    \/ LightingRenderInitFailed
    \/ LightingRender
    \/ \E outcome \in {"crash", "drawn"} : LightingRenderOutOfBounds(outcome)

SpecShadow == InitShadow /\ [][NextShadow]_vars

\* ------------------------------ frame loop, shadows of a changing list
\* The shadow and lighting calls of the loop on a list of at most MAX_LIGHTS
\* lights whose number changes between frames, with the light loop of the
\* shadow render failing at any light.
InitLights ==
    /\ Constructed
    /\ call = NoFunction
    /\ loopBody = ShadowLoop
    /\ hostPc = "shadow"
    /\ sceneLights \in 1 .. MAX_LIGHTS
    /\ sceneFaces = <<1>>
    /\ cmd = 0

NextLights ==
    \/ \E n \in 0 .. MAX_LIGHTS : ListChanges(n)
    \/ ShadowRenderInitFailed(0)
    \/ ShadowRender
    \/ \E i \in 0 .. (MAX_LIGHTS - 1) : ShadowRenderLoopFailed(i)
    \/ LightingRender

SpecLights == InitLights /\ [][NextLights]_vars

\* ------------------------------------------------- the functions by value
\* Special value of info.triangle for "no triangle" in intersect.
NoTriangle == 999999

\* FLT_MAX: above every collision distance of the scenes considered.
FLT_MAX == MaxHitT + 1

\* The inner loop of intersect over the triangles i .. end - 1 of one bounding
\* sphere: hitT[i] is the t intersectTriangle gives for triangle i, 0 when it
\* returns false (no collision, or t <= 0).
RECURSIVE IntersectTriangles(_, _, _, _)
IntersectTriangles(info, i, end, hitT) ==
    IF i >= end
      THEN info
      ELSE IntersectTriangles(
               IF hitT[i] > 0 /\ hitT[i] < info.t /\ i # info.triangle
                 THEN [triangle |-> i, t |-> hitT[i]]
                 ELSE info,
               i + 1, end, hitT)

\* The outer loop of intersect over the bounding spheres b .. nrOfBSpheres:
\* bsphere[b].hit is what intersectSphere returns for the ray.
RECURSIVE IntersectSpheres(_, _, _, _)
IntersectSpheres(info, b, bsphere, hitT) ==
    IF b > Len(bsphere)
      THEN info
      ELSE IntersectSpheres(
               IF bsphere[b].hit
                 THEN IntersectTriangles(info, bsphere[b].firstTriangle,
                          bsphere[b].firstTriangle + bsphere[b].nrOfTriangles,
                          hitT)
                 ELSE info,
               b + 1, bsphere, hitT)

\* intersect: the return value and the info it leaves.
intersect(bsphere, hitT) ==
    LET info == IntersectSpheres([triangle |-> NoTriangle, t |-> FLT_MAX],
                                 1, bsphere, hitT)
    IN  [hit |-> info.triangle # NoTriangle, triangle |-> info.triangle,
         t |-> info.t]

\* The triangles tested: MaxTested consecutive triangles of the buffer from
\* index base on, after base triangles of a first bounding sphere the ray
\* misses; the scenes are small ones (base 0) and ones of a million triangles.
TestedBases == {0, NoTriangle - 1}

\* The bounding spheres as migrate lays them out: the missed sphere of the
\* first base triangles, then two spheres that split the tested triangles
\* after the first k of them.
TestedSpheres(base, k, hit1, hit2) ==
    << [firstTriangle |-> 0, nrOfTriangles |-> base, hit |-> FALSE],
       [firstTriangle |-> base, nrOfTriangles |-> k, hit |-> hit1],
       [firstTriangle |-> base + k, nrOfTriangles |-> MaxTested - k,
        hit |-> hit2] >>

IntersectCalls ==
    { [fn |-> "intersect", done |-> FALSE, result |-> 0,
       bsphere |-> TestedSpheres(base, k, hit1, hit2),
       hitT |-> [i \in base .. (base + MaxTested - 1) |-> ts[i - base + 1]]] :
        base \in TestedBases, k \in 0 .. MaxTested, hit1 \in BOOLEAN,
        hit2 \in BOOLEAN, ts \in [1 .. MaxTested -> 0 .. MaxHitT] }

\* A lighting term is dark or one LightUnit, which the divisors the shader
\* reaches on short chains divide.
LightUnit == 12
LightValues == {0, LightUnit}

\* The light loop of computeRaycastedLighting on one bounce record: st holds
\* the color declared inside the while body and the function's nrOfBounces;
\* light[i] is lighting * (1 - shadow) of light i.
RECURSIVE BounceLights(_, _, _)
BounceLights(st, i, light) ==
    IF i > Len(light)
      THEN st
      ELSE BounceLights(
               [color |-> st.color + (light[i] \div (st.nrOfBounces + 1)),
                nrOfBounces |-> st.nrOfBounces + 1],
               i + 1, light)

\* The while loop of computeRaycastedLighting from record k of the chain on:
\* each pass declares its own color (the ambient term of the record), runs
\* the light loop on it and leaves the block; only nrOfBounces goes on to the
\* next record.
RECURSIVE BounceLoop(_, _, _)
BounceLoop(nrBounces, k, chain) ==
    IF k > Len(chain)
      THEN nrBounces
      ELSE BounceLoop(
               BounceLights([color |-> chain[k].ambient,
                             nrOfBounces |-> nrBounces],
                            1, chain[k].light).nrOfBounces,
               k + 1, chain)

\* computeRaycastedLighting: the function's color is 0 when the loop ends;
\* final is computeFinalLighting of the terminal record.
computeRaycastedLighting(chain, final) ==
    0 + (final \div BounceLoop(0, 1, chain))

\* Bounce records by what the shader computes from them.
BounceTerms(lights) ==
    [ambient : LightValues, light : [1 .. lights -> LightValues]]

LightingCalls ==
    { [fn |-> "computeRaycastedLighting", done |-> FALSE, result |-> 0,
       chain |-> chain, final |-> final] :
        chain \in UNION {[1 .. n -> BounceTerms(lights)] :
                           n \in 1 .. MaxChain, lights \in 1 .. MaxShaderLights},
        final \in LightValues }

\* Chunk ids of a file, Ovo::ChunkId::mesh among them.
ChunkIds == {"mesh", "light", "node"}

\* Mesh::loadChunk by its return statements.
loadChunk(chunkId, hasPhysics, nrOfChildren) ==
    IF chunkId # "mesh"
      THEN 0
      ELSE IF hasPhysics
             THEN 0
             ELSE nrOfChildren

LoadChunkCalls ==
    { [fn |-> "loadChunk", done |-> FALSE, result |-> 0, chunkId |-> c,
       hasPhysics |-> h, nrOfChildren |-> n] :
        c \in ChunkIds, h \in BOOLEAN, n \in 0 .. MaxChildren }

\* No pass is called while a function is looked at by its values.
NoLoop == <<>>

InitFunctions ==
    /\ Constructed
    /\ loopBody = NoLoop
    /\ hostPc = "load"
    /\ sceneLights = 0
    /\ sceneFaces = <<>>
    /\ cmd = 0
    /\ call \in IntersectCalls \cup LightingCalls \cup LoadChunkCalls

\* Everything but call.
programVars == <<hostPc, rayVars, sceneVars, shadowVars, lightDirty,
                 migrateVars, lastResult, argsValid, failed, builds,
                 initFailed, glVars>>

CallIntersect ==
    /\ call.fn = "intersect"
    /\ ~call.done
    /\ call' = [call EXCEPT !.done = TRUE,
                            !.result = intersect(call.bsphere, call.hitT)]
    /\ UNCHANGED programVars

CallComputeRaycastedLighting ==
    /\ call.fn = "computeRaycastedLighting"
    /\ ~call.done
    /\ call' = [call EXCEPT !.done = TRUE,
                            !.result = computeRaycastedLighting(call.chain,
                                                                call.final)]
    /\ UNCHANGED programVars

CallLoadChunk ==
    /\ call.fn = "loadChunk"
    /\ ~call.done
    /\ call' = [call EXCEPT !.done = TRUE,
                            !.result = loadChunk(call.chunkId, call.hasPhysics,
                                                 call.nrOfChildren)]
    /\ UNCHANGED programVars

NextFunctions ==
    \/ CallIntersect
    \/ CallComputeRaycastedLighting
    \/ CallLoadChunk

SpecFunctions == InitFunctions /\ [][NextFunctions]_vars

\* ---------------------------------------------------------- migrate alone
\* The loop body reduced to its migrate call.
MigrateLoop == <<"migrate">>

\* Lists of up to MaxMeshes meshes of up to MaxFaces faces each (a mesh may
\* have none), after zero or one light; a list without renderables is the
\* empty list.
SceneFaceLists ==
    UNION {[1 .. n -> 0 .. MaxFaces] : n \in 0 .. MaxMeshes}

InitMigrate ==
    /\ Constructed
    /\ call = NoFunction
    /\ loopBody = MigrateLoop
    /\ hostPc = "migrate"
    /\ sceneLights \in 0 .. 1
    /\ sceneFaces \in SceneFaceLists
    /\ sceneLights + Len(sceneFaces) > 0
    /\ cmd = 0

\* migrate called again and again on the list, the _pad bytes of one call
\* all alike.
NextMigrate ==
    \/ MigrateInvalid
    \/ \E tv \in Indeterminate, bv \in Indeterminate :
          Migrate([f \in 1 .. FacesBefore(Len(sceneFaces)) |-> tv],
                  [m \in 1 .. Len(sceneFaces) |-> bv])

SpecMigrate == InitMigrate /\ [][NextMigrate]_vars

\* -------------------------------------------------------------- properties
\* The geometry render has returned true and the ray-tracing render of the
\* frame has not been called yet.
GeometryRendered == hostPc = "raytracing" /\ geomResult

\* Pixel p is covered by a mesh; matTex[p] is then the roughness of the
\* fragment that ended up visible there.
Covered(p) == depthTex[p] < DepthFar

SeededPixels == {p \in Pixels : rayIndexTex[p] >= 0}

\* C1: after a geometry render, every pixel whose visible fragment has
\* roughness <= roughnessThreshold holds a non-negative index into the ray
\* records handed out so far, and every other pixel (rougher visible fragment,
\* or not covered) holds exactly -1.
C1_RayIndexFollowsRoughness ==
    GeometryRendered =>
        \A p \in Pixels :
            IF Covered(p) /\ matTex[p] <= roughnessThreshold
              THEN rayIndexTex[p] \in 0 .. (counter - 1)
              ELSE rayIndexTex[p] = NoRay

\* A render whose visible fragment sits exactly on the threshold and seeded.
C1_SeedOnThreshold ==
    /\ GeometryRendered
    /\ \E p \in Pixels : /\ Covered(p)
                          /\ matTex[p] = roughnessThreshold
                          /\ rayIndexTex[p] >= 0

\* C2: after a geometry render the seed count (the counter) is at most the
\* pixel count and equals the number of pixels with a non-negative ray index,
\* also when several fragments cover one pixel.
C2_SeedCountIsSeededPixels ==
    GeometryRendered =>
        /\ counter <= NumPixels
        /\ counter = Cardinality(SeededPixels)

\* C3: after every successful geometry render the indirect dispatch command
\* holds num_groups_x = ceil(seedCount / 64), so the dispatch launches at
\* least seedCount invocations.
C3_CommandIsCeilOfSeeds ==
    GeometryRendered =>
        /\ cmd = CeilDiv(counter, LocalSizeX)
        /\ LocalSizeX * cmd >= counter

\* The ray-tracing render of the frame has dispatched and returned true.
RayTraced == hostPc = "lighting" /\ rtResult /\ rtCall.nrOfBounces > 0

\* Records the geometry render of the frame handed out, and those the compute
\* pass appended after them.
Seeds == 0 .. (seedCount - 1)
Appended == seedCount .. (counter - 1)

\* The indices met when walking from record r along `next`, for at most n
\* steps.
RECURSIVE Chain(_, _)
Chain(r, n) ==
    IF n = 0 \/ rayData[r].next = NoRay
      THEN <<r>>
      ELSE <<r>> \o Chain(rayData[r].next, n - 1)

NoRepeat(seq) == \A a, b \in 1 .. Len(seq) : seq[a] = seq[b] => a = b

\* C4: after the ray-tracing pass, the chain walked from every seed reaches a
\* record with next = -1 in at most nrOfBounces steps (the bounce count passed
\* to render) and meets no record twice, whatever the interleaving was.
C4_ChainsEndWithinBounces ==
    RayTraced =>
        \A s \in Seeds :
            /\ rayData[Chain(s, rtCall.nrOfBounces)[Len(Chain(s, rtCall.nrOfBounces))]].next = NoRay
            /\ NoRepeat(Chain(s, RecordCap))

\* C5: each invocation owns one chain: no two invocations write the `next`
\* field of the same record, and after the pass every appended record lies on
\* the chain of exactly one seed.
C5_OneInvocationPerChain ==
    /\ \A r \in Records : Cardinality(nextWriters[r]) <= 1
    /\ RayTraced =>
          \A r \in Appended :
              Cardinality({s \in Seeds :
                  \E k \in 1 .. Len(Chain(s, RecordCap)) : Chain(s, RecordCap)[k] = r}) = 1

\* C6: within one frame no index is handed out twice by the shared counter,
\* to fragments and compute invocations alike.
C6_IndicesHandedOutOnce ==
    \A r \in Records : handedOut[r] <= 1

\* A dispatch in flight in which fragments and invocations have both
\* allocated, and another invocation is about to.
C6_BothPassesAllocated ==
    /\ hostPc = "cs"
    /\ seedCount >= 1
    /\ counter > seedCount
    /\ \A r \in 0 .. (counter - 1) : handedOut[r] = 1
    /\ \E i \in Records : inv[i].pc = "loop"

\* C7 as stated: with roughnessThreshold = 0 no pixel seeds a ray, whatever
\* the roughness of the fragments (0 included): after the geometry render
\* every ray index is -1 and the seed counter is 0.
C7_ZeroThresholdSeedsNothing ==
    (GeometryRendered /\ roughnessThreshold = 0) =>
        /\ counter = 0
        /\ \A p \in Pixels : rayIndexTex[p] = NoRay

\* C7 amended: with roughnessThreshold = 0 only fragments of roughness 0 seed:
\* after the geometry render the seed counter is the number of rasterized
\* fragments of roughness 0, a pixel whose visible fragment has roughness 0
\* holds an index, and every other pixel holds -1.
C7_ZeroThresholdSeedsOnlyZeroRoughness ==
    (GeometryRendered /\ roughnessThreshold = 0) =>
        /\ counter = nrZeroRough
        /\ \A p \in Pixels :
              IF Covered(p) /\ matTex[p] = 0
                THEN rayIndexTex[p] \in 0 .. (counter - 1)
                ELSE rayIndexTex[p] = NoRay

\* A render at threshold 0 in which a fragment of roughness 0 seeded and a
\* rougher fragment ended up visible.
C7_ZeroRoughnessBehindRough ==
    /\ GeometryRendered
    /\ roughnessThreshold = 0
    /\ nrZeroRough >= 1
    /\ \E p \in Pixels : Covered(p) /\ matTex[p] > 0

\* C8: a geometry render that passes its checks has reset the seed counter to
\* zero and set every ray-index pixel to -1 before the first fragment is
\* rasterized; while it draws, the counter counts fragments of this draw only.
C8_ResetBeforeRasterizing ==
    hostPc = "fs" =>
        /\ counter <= fragsDone
        /\ fragsDone = 0 =>
              /\ counter = 0
              /\ \A p \in Pixels : rayIndexTex[p] = NoRay

\* A render about to rasterize that found seeds or indices of an earlier frame.
C8_EarlierFrameLeftSeeds ==
    /\ hostPc = "fs"
    /\ fragsDone = 0
    /\ staleAtReset

\* C9: when the geometry render has returned, no fragment-shader counter
\* update is left without a barrier, and when the ray-tracing render has
\* returned from a dispatch, no compute-shader write is: the lighting pass
\* reads the ray buffer only after the compute writes are visible.
C9_WaitsBeforeReturn ==
    /\ GeometryRendered => "fs_counter" \notin pending
    /\ RayTraced => pending \cap {"cs_counter", "cs_ssbo"} = {}

\* A frame whose fragments seeded and whose dispatch appended a record.
C9_BothPassesWrote ==
    /\ RayTraced
    /\ seedCount >= 1
    /\ counter > seedCount

\* C10: a ray-tracing render with valid camera and list and nrOfBounces = 0
\* returns true, dispatches nothing, and leaves the ray records, the counter,
\* the uniforms, the command, the pending writes and the pass's dirty flag as
\* they were.
C10_NoBounceIsNoOp ==
    [][(hostPc = "raytracing" /\ hostPc' # hostPc
          /\ rtCall'.valid /\ rtCall'.nrOfBounces = 0)
        => /\ rtResult'
           /\ hostPc' = "lighting"
           /\ UNCHANGED <<rayData, counter, rtDirty, nrOfBounces, inv, cmd,
                          pending, rayIndexTex>>]_vars

\* A zero-bounce call has returned on a pass never built, with seeds in the
\* ray buffer.
C10_NoBounceOnUnbuiltPass ==
    /\ hostPc = "lighting"
    /\ rtCall.valid
    /\ rtCall.nrOfBounces = 0
    /\ rtResult
    /\ rtDirty
    /\ counter > 0

\* C15: whatever bounce count is passed to the ray-tracing render, a compute
\* invocation performs at most MAX_BOUNCES = 4 bounce iterations: none is in
\* the loop with 4 iterations behind it, and the loop bound the shader gets
\* is at most 4.
C15_AtMostFourIterations ==
    hostPc = "cs" =>
        /\ nrOfBounces <= MAX_BOUNCES
        /\ \A i \in Records :
              inv[i].pc \in {"loop", "write"} => inv[i].c < MAX_BOUNCES

\* C18: a compute invocation takes a record as its seed and extends a chain
\* only if its index is below the number of seeds the geometry pass produced,
\* also when other invocations have raised the counter.
C18_OnlySeedInvocationsRun ==
    hostPc = "cs" =>
        \A i \in Records : inv[i].pc \in {"loop", "write"} => i \in Seeds

\* Record r has been written in this frame: by a fragment, or by a compute
\* invocation of the running dispatch.
Written(r) == r \in Seeds \/ nextWriters[r] # {}

\* The step writes the payload of record r (a compute invocation completes
\* the stores of a hit iteration whose new record is r).
PayloadWrite(r) ==
    \E i \in Records : /\ inv[i].pc = "write"
                        /\ inv[i].newIndex = r
                        /\ inv'[i].pc # "write"

\* C19: within a frame, once a record has been written its payload is not
\* written again, and its next field changes only from -1 to the index of a
\* record appended in the pass.
C19_OnlyNextChangesOnce ==
    [][hostPc = "cs" =>
         \A r \in Records :
            Written(r) =>
               /\ ~PayloadWrite(r)
               /\ rayData'[r].next # rayData[r].next =>
                     /\ rayData[r].next = NoRay
                     /\ rayData'[r].next >= seedCount]_vars

\* C20: when a ray of a chain hits nothing the chain ends there: the record
\* the invocation stopped at keeps next = -1, and the invocation allocates no
\* record in its remaining iterations.
C20_MissEndsChain ==
    [][hostPc' = "cs" =>
         \A i \in Records :
            /\ inv'[i].missed => rayData'[inv'[i].index].next = NoRay
            /\ inv[i].missed => inv'[i].pc \in {"loop", "done"}]_vars

\* The step is a call of a pass: the host leaves the call position of the
\* loop body it is at (for another call position or into the pass).
PassCalled == hostPc \in Passes /\ hostPc' # hostPc

\* The dirty flag of each pass that is built lazily.
DirtyFlags == [shadow |-> shadowDirty, geometry |-> geomDirty,
               raytracing |-> rtDirty, lighting |-> lightDirty]

LazyPasses == DOMAIN DirtyFlags

\* C11: a render entry point or migrate called with an empty list (or an
\* empty camera, for ray tracing) returns false and changes nothing: no pass
\* is built, no texture, buffer, counter or uniform is written, nothing is
\* drawn or dispatched.
C11_EmptyListChangesNothing ==
    [][(PassCalled /\ ~argsValid') =>
         /\ ~lastResult'
         /\ hostPc' \in Passes
         /\ UNCHANGED <<DirtyFlags, builds, shadowMapCount, shadowDrawn,
                        roughnessThreshold, nrOfBounces, counter, rayData,
                        rayIndexTex, depthTex, matTex, cmd, fragsDone, inv,
                        pending, migrateVars>>]_vars

\* C11 happens: the geometry render was just called with an empty list while
\* the pass was not yet built and earlier passes were.
C11_EmptyListOnUnbuiltPass ==
    /\ hostPc = "migrate"
    /\ ~argsValid
    /\ ~lastResult
    /\ geomDirty
    /\ ~shadowDirty

\* C12: a pass is built only by a call of its render made while it is dirty;
\* the build leaves it clean, and a clean pass is never built again and
\* never becomes dirty again.
C12_BuiltOnceWhenDirty ==
    [][\A p \in LazyPasses :
         /\ builds'[p] # builds[p] =>
               /\ hostPc = p
               /\ DirtyFlags[p]
               /\ ~DirtyFlags'[p]
               /\ builds'[p] = 1
         /\ ~DirtyFlags[p] => ~DirtyFlags'[p] /\ builds'[p] = builds[p]]_vars

\* C12 happens: the geometry render, built by an earlier frame, runs again
\* (it found that frame's seeds when it reset the counter) and is still the
\* one build.
C12_BuiltPassRendersAgain ==
    /\ hostPc = "fs"
    /\ staleAtReset
    /\ ~geomDirty
    /\ builds["geometry"] = 1

\* A valid render call of pass p on a pass whose init() has failed and that
\* is still dirty has one of two ends: init() fails again, or the pass is
\* built.
Reattempts(p) ==
    (PassCalled /\ hostPc = p /\ argsValid' /\ p \in initFailed /\ DirtyFlags[p])
        => \/ hostPc' \in Passes /\ ~lastResult' /\ DirtyFlags'[p]
           \/ builds'[p] = builds[p] + 1 /\ ~DirtyFlags'[p]

\* A valid render call of pass p that returns false (init() failed) found the
\* pass dirty and leaves it dirty and not built.
FailureKeepsDirty(p) ==
    (PassCalled /\ hostPc = p /\ hostPc' \in Passes /\ argsValid' /\ ~lastResult')
        => DirtyFlags[p] /\ DirtyFlags'[p] /\ builds'[p] = builds[p]

C14_AtMostFourShadowMaps ==
    shadowMapCount <= MAX_LIGHTS /\ shadowDrawn <= MAX_LIGHTS

\* C16: migrating the same list again leaves the triangle and bounding
\* sphere buffers and the three counts as the migration before left them.
C16_MigrateTwiceSameBuffers ==
    [][(PassCalled /\ hostPc = "migrate" /\ argsValid' /\ nrOfMeshes > 0)
          => UNCHANGED migrateVars]_vars

\* C17: once a pass call of a frame has returned false, no later pass of that
\* frame is called.
C17_FrameStopsAtFirstFailure ==
    [][failed => ~PassCalled]_vars

\* Total face count of the list.
RECURSIVE SumFaces(_)
SumFaces(faces) ==
    IF faces = <<>> THEN 0 ELSE faces[1] + SumFaces(Tail(faces))

\* Positions (from 0) of the triangles of bounding sphere m.
SphereRange(m) ==
    bspheres[m].firstTriangle ..
        (bspheres[m].firstTriangle + bspheres[m].nrOfTriangles - 1)

\* migrate has filled the buffers from the list.
Migrated == nrOfMaterials > 0

\* C22: after migrate the triangle ranges of the bounding spheres start at 0,
\* follow one another in mesh order without gap or overlap and end at the
\* total face count; sphere k holds the faces of mesh k, each with matId = k,
\* and materials[k] was filled from mesh k.
C22_SphereRangesPartitionTriangles ==
    Migrated =>
        /\ Len(bspheres) = Len(sceneFaces)
        /\ Len(triangles) = SumFaces(sceneFaces)
        /\ nrOfTriangles = SumFaces(sceneFaces)
        /\ \A m \in 1 .. Len(bspheres) :
              /\ bspheres[m].nrOfTriangles = sceneFaces[m]
              /\ bspheres[m].firstTriangle =
                    (IF m = 1 THEN 0
                     ELSE bspheres[m - 1].firstTriangle + bspheres[m - 1].nrOfTriangles)
              /\ bspheres[m].firstTriangle + bspheres[m].nrOfTriangles
                    <= Len(triangles)
              /\ \A i \in SphereRange(m) :
                    /\ triangles[i + 1].face[1] = m
                    /\ triangles[i + 1].matId = m - 1
                    /\ materials[triangles[i + 1].matId + 1].mesh = m
        /\ \A i \in 0 .. (Len(triangles) - 1) :
              \E m \in 1 .. Len(bspheres) : i \in SphereRange(m)

\* C22 happens: two meshes of different face counts after a light have been
\* migrated.
C22_TwoMeshesMigrated ==
    /\ Migrated
    /\ sceneLights = 1
    /\ Len(bspheres) = 2
    /\ bspheres[1].nrOfTriangles = 2
    /\ bspheres[2].nrOfTriangles = 1

\* The triangles of the call that lie in a bounding sphere the ray hits and
\* that the ray intersects with t > 0.
Candidates ==
    {i \in DOMAIN call.hitT :
        /\ call.hitT[i] > 0
        /\ \E b \in 1 .. Len(call.bsphere) :
              /\ call.bsphere[b].hit
              /\ i >= call.bsphere[b].firstTriangle
              /\ i < call.bsphere[b].firstTriangle + call.bsphere[b].nrOfTriangles}

\* The first in buffer order of the candidates of smallest t.
Nearest ==
    CHOOSE i \in Candidates :
        \A j \in Candidates :
            \/ call.hitT[i] < call.hitT[j]
            \/ call.hitT[i] = call.hitT[j] /\ i <= j

\* C21: intersect returns a hit exactly when some triangle inside a bounding
\* sphere the ray hits is intersected with t > 0, and then reports the first
\* in buffer order of the triangles of smallest t.
C21_IntersectReportsNearest ==
    (call.fn = "intersect" /\ call.done) =>
        /\ call.result.hit <=> (Candidates # {})
        /\ Candidates # {} =>
              /\ call.result.triangle = Nearest
              /\ call.result.t = call.hitT[Nearest]

\* Direct lighting of bounce record k of the chain of the call: its ambient
\* term and the terms of all its lights.
RECURSIVE SumLights(_, _)
SumLights(light, i) ==
    IF i > Len(light) THEN 0 ELSE light[i] + SumLights(light, i + 1)

Direct(k) == call.chain[k].ambient + SumLights(call.chain[k].light, 1)

\* Sum over the bounce records k .. n of (direct lighting of record k) / k.
RECURSIVE BounceAverage(_)
BounceAverage(k) ==
    IF k > Len(call.chain)
      THEN 0
      ELSE (Direct(k) \div k) + BounceAverage(k + 1)

\* C23: the colour returned for a chain r1..rn and its terminal record is the
\* sum over k = 1..n of (direct lighting of rk) / k plus the direct lighting
\* of the terminal record.
C23_BounceAveragedColour ==
    (call.fn = "computeRaycastedLighting" /\ call.done) =>
        call.result = BounceAverage(1) + call.final

\* C26: the value loadChunk returns for a failed load (invalid chunk id or a
\* physics section) differs from the value of every successful load, which
\* means a successful load never returns 0.
C26_FailureValueNeverOnSuccess ==
    (/\ call.fn = "loadChunk"
     /\ call.done
     /\ call.chunkId = "mesh"
     /\ ~call.hasPhysics) =>
        call.result # loadChunk("node", FALSE, call.nrOfChildren)

\* The passes that only read the ray buffers.
ReadingPasses == {"shadow", "lighting", "migrate"}

\* C24: a call of the shadow render, of the lighting render or of migrate
\* leaves every ray record, the seed counter and the indirect dispatch command
\* as they were.
C24_ReadingPassesKeepRayBuffers ==
    [][(PassCalled /\ hostPc \in ReadingPasses) =>
          UNCHANGED <<rayData, counter, cmd>>]_vars

\* C24 happens: shadow maps were drawn, the list was migrated and the
\* lighting pass has just returned on a ray buffer with linked records.
C24_ReadingPassesRanOnLinkedRecords ==
    /\ hostPc = "shadow"
    /\ lastResult
    /\ builds["lighting"] > 0
    /\ shadowDrawn > 0
    /\ Migrated
    /\ counter > 0
    /\ \E r \in Records : rayData[r].next # NoRay

\* The binding point each resource is said to have in every pass.
BindingConvention ==
    [triangles |-> 0, bspheres |-> 1, materials |-> 2, rayBuffer |-> 3,
     rayBufferCounter |-> 4, workgroupCount |-> 5, posTex |-> 0,
     normalTex |-> 1, matTex |-> 2, rayBufferIndexTex |-> 3]

\* C25: every pass binds each resource it uses to the binding point of the
\* convention: triangles 0, bounding spheres 1, materials 2, ray buffer 3,
\* seed counter 4, indirect command 5, G-buffer textures at units 0..3; the
\* geometry, ray-tracing and lighting passes all have the ray buffer at 3.
C25_OneBindingConvention ==
    \A pass \in Passes :
        \A b \in bound[pass] : b.point = BindingConvention[b.resource]

\* C27: every index the counter hands out in a frame is lower than the
\* capacity of the ray buffer, 3 * width * height records, so the counter
\* never exceeds the capacity and no invocation holds an index past the end.
C27_IndicesBelowCapacity ==
    /\ counter <= RayBufferCapacity
    /\ \A i \in Records : inv[i].newIndex < RayBufferCapacity

\* The indices the lighting shader reads when it walks from index r along
\* `next` (main() reads rayData[rayId], computeRaycastedLighting every
\* rayData[ray.next]), for at most n reads; an index past the end of the
\* buffer is read and gives no record to go on from.
RECURSIVE LightingWalk(_, _)
LightingWalk(r, n) ==
    IF r = NoRay \/ n = 0
      THEN {}
      ELSE {r} \cup (IF r \in Records
                        THEN LightingWalk(rayData[r].next, n - 1)
                        ELSE {})

\* The indices the lighting pass can reach from the pixels of the ray-index
\* texture.
ReachedByLighting ==
    UNION {LightingWalk(rayIndexTex[p], RecordCap + 1) : p \in Pixels}

\* C28: when the lighting pass runs after the geometry pass of the frame,
\* every ray record it can reach from a pixel with a ray index is a record of
\* the buffer written in this frame, with an index below the counter.
C28_LightingReachesFreshRecords ==
    (hostPc = "lighting" /\ geomResult) =>
        \A r \in ReachedByLighting :
            /\ r < counter
            /\ r \in Records
            /\ Written(r)

\* C29: once the shadow pass is built, every light a shadow render has
\* attached a depth texture for and drawn has an index below
\* getShadowMapCount(), also after the number of lights of the list has
\* changed, and the lighting pass iterates no more lights than there are
\* shadow maps.
C29_LightsWithinShadowMaps ==
    builds["shadow"] > 0 =>
        /\ shadowDrawn <= shadowMapCount
        /\ nrOfLights <= shadowMapCount

\* C30: when a shadow render that has drawn at least one light has returned,
\* true or false, colour writes are enabled, face culling is disabled with
\* the back-face mode selected and the default framebuffer is bound.
C30_ShadowRenderRestoresGlState ==
    (hostPc = "lighting" /\ argsValid /\ shadowDrawn >= 1) =>
        glState = DefaultGlState

====
